---- MODULE Spec2Model ----
(***************************************************************************)
(* The integer expression evaluator of eval_expr: the character scanner    *)
(* (Tokenizer), the one-token lookahead (Peekable<Tokenizer>) and the      *)
(* precedence-climbing evaluator (Expr), for both copies of the program:   *)
(*   file = "misc"      src/misc/eval_expr/src/main.rs                     *)
(*   file = "eval_expr" src/eval_expr/src/main.rs                          *)
(* A `char` is a one-character string; the input &str is a sequence of     *)
(* chars.  i32 arithmetic keeps its 32-bit width: with overflow checks     *)
(* (build = "debug") an overflowing + - * pow panics, without them         *)
(* (build = "release") it wraps; MIN / -1 panics in every build.           *)
(***************************************************************************)
EXTENDS Integers, Sequences, FiniteSets, TLC

VARIABLES
    file,       \* which copy of main.rs is running
    entry,      \* what the caller runs: Expr::eval or Tokenizer::collect
    build,      \* "debug": overflow checks on; "release": wrapping arithmetic
    src,        \* the input text, a sequence of chars
    cursor,     \* Tokenizer.tokens: number of chars the scanner has consumed
    peeked,     \* Expr.iter: the Peekable's one-token buffer
    stack,      \* the call stack: eval / compute_expr / compute_atom frames
    collected,  \* the Vec that Tokenizer::collect is filling (test_tokenize)
    result      \* what the entry point returned, Pending while it runs

vars == <<file, entry, build, src, cursor, peeked, stack, collected, result>>

-----------------------------------------------------------------------------
(* Bounds of the model.                                                    *)

\* every string over Alphabet up to this length is an input
MaxLen == 3
\* operator chains  d op d op ... d  have up to this many operands
MaxOperands == 3
\* collect() stops being followed after this many tokens
MaxTokens == 4

-----------------------------------------------------------------------------
(* i32 arithmetic.                                                         *)

I32_MAX == 2147483647
I32_MIN == -I32_MAX - 1

AddOverflows(l, r) ==
    \/ r > 0 /\ l > I32_MAX - r
    \/ r < 0 /\ l < I32_MIN - r

\* l + r reduced modulo 2^32 into the i32 range
WrappingAdd(l, r) ==
    IF ~AddOverflows(l, r) THEN l + r
    ELSE IF r > 0 THEN ((l - I32_MAX) + (r - I32_MAX)) - 2
    ELSE ((l + I32_MAX) + (r + I32_MAX)) + 2

WrappingNeg(x) == IF x = I32_MIN THEN I32_MIN ELSE -x

SubOverflows(l, r) ==
    IF r = I32_MIN THEN l >= 0 ELSE AddOverflows(l, -r)

WrappingSub(l, r) ==
    IF r = I32_MIN THEN WrappingAdd(l, I32_MIN) ELSE WrappingAdd(l, -r)

MulOverflows(l, r) ==
    IF l = 0 \/ r = 0 THEN FALSE
    ELSE IF l > 0 /\ r > 0 THEN l > I32_MAX \div r
    ELSE IF l > 0 /\ r < 0 THEN r < (I32_MIN + l - 1) \div l
    ELSE IF l < 0 /\ r > 0 THEN l < (I32_MIN + r - 1) \div r
    ELSE l = I32_MIN \/ r = I32_MIN \/ (-l) > I32_MAX \div (-r)

RECURSIVE ShiftAddMul(_)
\* st.sum + st.a * st.b modulo 2^32 for st.b >= 0, by doubling st.a
ShiftAddMul(st) ==
    IF st.b = 0 THEN st.sum
    ELSE ShiftAddMul([a   |-> WrappingAdd(st.a, st.a),
                      b   |-> st.b \div 2,
                      sum |-> IF st.b % 2 = 1 THEN WrappingAdd(st.sum, st.a) ELSE st.sum])

WrappingMul(l, r) ==
    IF ~MulOverflows(l, r) THEN l * r
    ELSE IF r = I32_MIN THEN (IF l % 2 = 1 THEN I32_MIN ELSE 0)
    ELSE IF r < 0 THEN WrappingNeg(ShiftAddMul([a |-> l, b |-> -r, sum |-> 0]))
    ELSE ShiftAddMul([a |-> l, b |-> r, sum |-> 0])

\* l / r for r > 0, rounding toward zero
DivTruncPos(l, r) ==
    LET q == l \div r
    IN  IF l < 0 /\ q * r # l THEN q + 1 ELSE q

\* l / r of i32, defined when r # 0 and not (l = MIN and r = -1)
DivTrunc(l, r) ==
    IF r > 0 THEN DivTruncPos(l, r)
    ELSE IF r = I32_MIN THEN (IF l = I32_MIN THEN 1 ELSE 0)
    ELSE -DivTruncPos(l, -r)

DivOverflows(l, r) == l = I32_MIN /\ r = -1

RECURSIVE PowLoop(_)
\* i32::pow's square-and-multiply loop from the state st = [base, exp, acc]
\* with exp >= 1; ovf: a multiplication has overflowed
PowLoop(st) ==
    LET odd  == st.exp % 2 = 1
        acc1 == IF odd THEN WrappingMul(st.acc, st.base) ELSE st.acc
        ovf1 == st.ovf \/ (odd /\ MulOverflows(st.acc, st.base))
    IN  IF st.exp = 1 THEN [val |-> acc1, ovf |-> ovf1]
        ELSE PowLoop([base |-> WrappingMul(st.base, st.base),
                      exp  |-> st.exp \div 2,
                      acc  |-> acc1,
                      ovf  |-> ovf1 \/ MulOverflows(st.base, st.base)])

\* l.pow(r as u32): a negative r is the exponent r + 2^32, so its low bit is
\* r % 2 and its half is (r \div 2) + 2^31
Pow(l, r) ==
    IF r = 0 THEN [val |-> 1, ovf |-> FALSE]
    ELSE IF r > 0 THEN PowLoop([base |-> l, exp |-> r, acc |-> 1, ovf |-> FALSE])
    ELSE PowLoop([base |-> WrappingMul(l, l),
                  exp  |-> ((r \div 2) + I32_MAX) + 1,
                  acc  |-> IF r % 2 = 1 THEN l ELSE 1,
                  ovf  |-> MulOverflows(l, l)])

-----------------------------------------------------------------------------
(* Token and ExprError.                                                    *)

Tok(t, v) == [t |-> t, v |-> v]
Number(n) == Tok("Number", n)
\* Option::None of Option<Token>
NoToken == Tok("None", 0)

Pending == [kind |-> "Pending", val |-> 0, err |-> "", msg |-> ""]
Ok(v) == [kind |-> "Ok", val |-> v, err |-> "", msg |-> ""]
Err(e, m) == [kind |-> "Err", val |-> 0, err |-> e, msg |-> m]
Panic(m) == [kind |-> "Panic", val |-> 0, err |-> "", msg |-> m]

\* Token::is_operator of src/misc
is_operator_misc(tok) ==
    tok.t \in {"Plus", "Minus", "Multiply", "Divide", "Power"}

\* Token::is_operator of src/eval_expr, which lists the parentheses too
is_operator_eval_expr(tok) ==
    tok.t \in {"Plus", "Minus", "Divide", "Multiply", "Power", "RightParen", "LeftParen"}

is_operator(f, tok) ==
    IF f = "misc" THEN is_operator_misc(tok) ELSE is_operator_eval_expr(tok)

\* precedence with * and / on the level of + and -
precedence_flat(tok) ==
    CASE tok.t \in {"Multiply", "Divide", "Plus", "Minus"} -> 1
      [] tok.t = "Power" -> 3
      [] OTHER -> 0

precedence(tok) ==
    CASE tok.t \in {"Multiply", "Divide"} -> 2
      [] tok.t \in {"Plus", "Minus"} -> 1
      [] tok.t = "Power" -> 3
      [] OTHER -> 0

ASSOC_LEFT == 0
ASSOC_RIGHT == 1

assoc(tok) == IF tok.t = "Power" THEN ASSOC_RIGHT ELSE ASSOC_LEFT

\* src/misc:  let next_min_prec = if op.assoc() == ASSOC_LEFT { .. + 1 } else { .. }
next_min_prec_misc(op) ==
    IF assoc(op) = ASSOC_LEFT THEN precedence(op) + 1 ELSE precedence(op)

\* src/eval_expr:  self.compute_expr(Token::precedence(&token) + 1)
next_min_prec_eval_expr(op) == precedence(op) + 1

\* the minimum precedence compute_expr passes to the right-hand side
next_min_prec(f, op) ==
    IF f = "misc" THEN next_min_prec_misc(op) ELSE next_min_prec_eval_expr(op)

\* Token::compute: [some |-> FALSE] is None; panic is "" or the panic message
\* of the arithmetic step under this build
compute(b, op, l, r) ==
    LET some(v, ovf, m) ==
            [some |-> TRUE, val |-> v,
             panic |-> IF ovf /\ b = "debug" THEN m ELSE ""]
        none == [some |-> FALSE, val |-> 0, panic |-> ""]
    IN  CASE op.t = "Plus" ->
               some(WrappingAdd(l, r), AddOverflows(l, r), "attempt to add with overflow")
          [] op.t = "Minus" ->
               some(WrappingSub(l, r), SubOverflows(l, r), "attempt to subtract with overflow")
          [] op.t = "Multiply" ->
               some(WrappingMul(l, r), MulOverflows(l, r), "attempt to multiply with overflow")
          [] op.t = "Divide" ->
               IF r = 0 THEN none
               ELSE IF DivOverflows(l, r)
               THEN [some |-> TRUE, val |-> 0, panic |-> "attempt to divide with overflow"]
               ELSE some(DivTrunc(l, r), FALSE, "")
          [] op.t = "Power" ->
               LET p == Pow(l, r)
               IN  some(p.val, p.ovf, "attempt to multiply with overflow")
          [] OTHER -> none

\* compute's None reported as ExprError::DivisionByZero
compute_error_division_by_zero(f) == Err("DivisionByZero", "")

\* the error compute_expr makes of compute's None
compute_error(f) ==
    IF f = "misc" THEN Err("InvalidNumber", "")           \* .ok_or(ExprError::InvalidNumber)
    ELSE Err("Parse", "Invalid operation")                \* .ok_or_else(|| ExprError::Parse(..))

-----------------------------------------------------------------------------
(* Tokenizer.                                                              *)

Digits == <<"0", "1", "2", "3", "4", "5", "6", "7", "8", "9">>

\* char::is_digit(10)
is_digit(c) == \E i \in 1..10 : Digits[i] = c

\* char::to_digit(10).unwrap()
to_digit(c) == (CHOOSE i \in 1..10 : Digits[i] = c) - 1

\* a char of the Unicode categories Nd, Nl, No outside ASCII: ARABIC-INDIC
\* DIGIT THREE, VULGAR FRACTION ONE HALF
OtherNumeric == {"U+0663", "U+00BD"}

\* char::is_numeric()
is_numeric(c) == is_digit(c) \/ c \in OtherNumeric

\* char::is_whitespace()
is_whitespace(c) == c \in {" ", "\t", "\n", "\r"}

RECURSIVE consume_whitespace(_, _)
\* the cursor after the run of whitespace starting at cursor p
consume_whitespace(s, p) ==
    IF p < Len(s) /\ is_whitespace(s[p + 1])
    THEN consume_whitespace(s, p + 1)
    ELSE p

RECURSIVE scan_number_loop(_, _)
\* the while let loop from the state st = [pos, num]; ovf: num * 10 + digit
\* has overflowed
scan_number_loop(s, st) ==
    IF st.pos < Len(s) /\ is_digit(s[st.pos + 1])
    THEN LET d == to_digit(s[st.pos + 1])
             m == WrappingMul(st.num, 10)
         IN  scan_number_loop(s, [pos |-> st.pos + 1,
                                  num |-> WrappingAdd(m, d),
                                  ovf |-> st.ovf \/ MulOverflows(st.num, 10) \/ AddOverflows(m, d)])
    ELSE [tok |-> Number(st.num), pos |-> st.pos, ovf |-> st.ovf]

\* Tokenizer::scan_number from cursor p: the token, the cursor after it, and
\* whether num * 10 + digit overflowed on the way
scan_number(s, p) == scan_number_loop(s, [pos |-> p, num |-> 0, ovf |-> FALSE])

\* Tokenizer::scan_operator from cursor p < Len(s): consumes one char
scan_operator(s, p) ==
    LET c == s[p + 1]
        t == CASE c = "+" -> Tok("Plus", 0)
               [] c = "-" -> Tok("Minus", 0)
               [] c = "*" -> Tok("Multiply", 0)
               [] c = "/" -> Tok("Divide", 0)
               [] c = "^" -> Tok("Power", 0)
               [] c = "(" -> Tok("LeftParen", 0)
               [] c = ")" -> Tok("RightParen", 0)
               [] OTHER -> NoToken
    IN  [tok |-> t, pos |-> p + 1, ovf |-> FALSE]

\* <Tokenizer as Iterator>::next from cursor p
Tokenizer_next(s, p) ==
    LET q == consume_whitespace(s, p)
    IN  IF q = Len(s) THEN [tok |-> NoToken, pos |-> q, ovf |-> FALSE]
        ELSE IF is_numeric(s[q + 1]) THEN scan_number(s, q)
        ELSE scan_operator(s, q)

-----------------------------------------------------------------------------
(* Peekable<Tokenizer>.                                                    *)

Empty == [full |-> FALSE, tok |-> NoToken]
Full(tok) == [full |-> TRUE, tok |-> tok]

\* Peekable::peek: the buffered item, or the Tokenizer's next one, which it
\* buffers (a buffered None included)
peek ==
    IF peeked.full THEN [tok |-> peeked.tok, pos |-> cursor, ovf |-> FALSE]
    ELSE Tokenizer_next(src, cursor)

\* whether the scan a peek or next runs panics in this build
ScanPanics(r) == r.ovf /\ build = "debug"

ScanPanic == Panic("attempt to multiply or add with overflow")

-----------------------------------------------------------------------------
(* The call stack.                                                         *)

Frame(fn, at, min_prec) ==
    [fn |-> fn, at |-> at, min_prec |-> min_prec, lhs |-> 0, op |-> NoToken, rhs |-> 0]

Top == stack[Len(stack)]
Callers == SubSeq(stack, 1, Len(stack) - 1)
Running(fn, at) == Len(stack) > 0 /\ Top.fn = fn /\ Top.at = at

\* the stack with its top frame replaced by fr
WithTop(st, fr) == [st EXCEPT ![Len(st)] = fr]

\* the stack after the top frame returns Ok(v) to its caller:
\*   eval          let result = self.compute_expr(1)?;
\*   compute_atom  let result = self.compute_expr(1)?;
\*   compute_expr  let mut lhs = self.compute_atom()?;  /  let rhs = self.compute_expr(..)?;
Return(v) ==
    LET c == Callers[Len(Callers)]
    IN  CASE c.fn = "eval" -> WithTop(Callers, [c EXCEPT !.lhs = v, !.at = "check"])
          [] c.fn = "compute_atom" -> WithTop(Callers, [c EXCEPT !.lhs = v, !.at = "close"])
          [] c.fn = "compute_expr" /\ c.at = "atom" ->
               WithTop(Callers, [c EXCEPT !.lhs = v, !.at = "loop"])
          [] c.fn = "compute_expr" /\ c.at = "rhs" ->
               WithTop(Callers, [c EXCEPT !.rhs = v, !.at = "apply"])

\* an Err carried by `?` through every caller out of eval, or a panic
Exit(r) ==
    /\ result' = r
    /\ stack' = <<>>

-----------------------------------------------------------------------------
(* The inputs.                                                             *)

Alphabet == {"0", "2", "-", "/", "^", "(", ")", " ", "a", "U+0663"}

\* every string over Alphabet of length 0..MaxLen
ShortInputs == UNION {[1..n -> Alphabet] : n \in 0..MaxLen}

ChainDigits == {"2", "3"}
OpChars == {"+", "-", "*", "/", "^"}

\* d1 o1 d2 o2 ... dn
Chain(ds, os) ==
    [i \in 1..(2 * Len(ds) - 1) |->
        IF i % 2 = 1 THEN ds[(i + 1) \div 2] ELSE os[i \div 2]]

\* (d1 o1 d2) o2 ... dn
GroupLeft(c) == <<"(">> \o SubSeq(c, 1, 3) \o <<")">> \o SubSeq(c, 4, Len(c))

\* d1 o1 ... (dn-1 on-1 dn)
GroupRight(c) ==
    SubSeq(c, 1, Len(c) - 3) \o <<"(">> \o SubSeq(c, Len(c) - 2, Len(c)) \o <<")">>

Chains ==
    UNION {{Chain(ds, os) : ds \in [1..n -> ChainDigits], os \in [1..(n - 1) -> OpChars]} :
           n \in 2..MaxOperands}

ChainInputs ==
    Chains \cup {GroupLeft(c) : c \in Chains} \cup {GroupRight(c) : c \in Chains}

\* the inputs of the tests and of the documented cases, char by char
Examples == {
    <<"1", " ", "+", " ", "2", " ", "-", " ", "3">>,
    <<"1", " ", "+", " ", "2", " ", "*", " ", "3">>,
    <<"1", " ", "+", " ", "2", " ", "*", " ", "3", " ", "-", " ", "4">>,
    <<"1", " ", "+", " ", "2", " ", "*">>,
    <<"1", " ", "+", " ", "2", " ", "/", " ", "0">>,
    <<"1", " ", "+", " ", "2", " ", "*", " ", "3", " ", "-">>,
    <<"1", " ", "+", " ", "2", " ", "*", " ", "3", " ", "-", " ", "4", " ", "/", " ", "0">>,
    <<"(", "2", " ", "+", " ", "3", ")", " ", "*", " ", "4">>,
    <<"2", " ", "^", " ", "3">>,
    <<"2", " ", "+", " ", "3", " ", "*", " ", "4">>,
    <<"2", " ", "^", " ", "3", " ", "^", " ", "2">>,
    <<"2", " ", "*", " ", "(", "3", " ", "+", " ", "4", ")", " ", "^", " ", "2">>,
    <<"2", " ", "^", " ", "(", "1", " ", "^", " ", "4", ")">>,
    <<"(", "2", " ", "^", " ", "1", ")", " ", "^", " ", "4">>,
    <<"1", " ", "+", " ", "2", " ", "-", " ", "3", " ", "+", " ", "4", " ", "-", " ", "5">>,
    <<"1", " ", "+", " ", "2", " ", "/", " ", "2">>,
    <<"(", "2", " ", "+", " ", "3">>,
    <<"4", " ", "/", " ", "(", "2", " ", "-", " ", "2", ")">>,
    <<"1", " ", "a", " ", "+", " ", "2">>,
    <<"1", ".", "5">>,
    <<"1", " ", "2">>,
    <<"1", " ", "+", " ", "2", " ", ")">>,
    <<"(", "1", ")", " ", "(", "2", ")">>,
    <<"(", "2", " ", "+", " ", "3", " ", "4">>,
    <<"(", "(", "1", ")">>,
    <<"+", " ", "1">>,
    <<"2", " ", "^", " ", "(", "1", " ", "-", " ", "2", ")">>,
    <<"2", " ", "^", " ", "(", "0", " ", "-", " ", "1", ")">>,
    <<"1", " ", "^", " ", "(", "0", " ", "-", " ", "1", ")">>,
    <<"(", "0", " ", "-", " ", "2", "1", "4", "7", "4", "8", "3", "6", "4", "7", " ", "-", " ", "1", ")", " ", "/", " ", "(", "0", " ", "-", " ", "1", ")">>,
    <<"(", "0", " ", "-", " ", "2", "1", "4", "7", "4", "8", "3", "6", "4", "7", " ", "-", " ", "1", ")", " ", "/", " ", "2">>,
    <<"2", "1", "4", "7", "4", "8", "3", "6", "4", "8">>,
    <<"2", "1", "4", "7", "4", "8", "3", "6", "4", "7", " ", "+", " ", "1">>,
    <<"0", " ", "-", " ", "2", "1", "4", "7", "4", "8", "3", "6", "4", "7", " ", "-", " ", "2">>,
    <<"6", "5", "5", "3", "6", " ", "*", " ", "6", "5", "5", "3", "6">>,
    <<"(", "0", " ", "-", " ", "7", ")", " ", "/", " ", "2">>,
    <<"7", " ", "/", " ", "(", "0", " ", "-", " ", "2", ")">>,
    <<"1", "2", " ", "*", " ", "(", "3", "4", " ", "-", " ", "5", ")">>,
    <<"1", " ", "+", " ", "U+0663">>,
    <<"U+0663", "2">>
}

\* the inputs given to Expr::new(..).eval()
EvalInputs == ShortInputs \cup ChainInputs \cup Examples

\* the inputs given to Tokenizer::new(..).collect()
CollectInputs == ShortInputs \cup Examples

-----------------------------------------------------------------------------
(* The program.                                                            *)

Collected == [kind |-> "Collected", val |-> 0, err |-> "", msg |-> ""]

Init ==
    /\ file \in {"misc", "eval_expr"}
    /\ build \in {"debug", "release"}
    /\ entry \in {"eval", "collect"}
    /\ src \in (IF entry = "eval" THEN EvalInputs ELSE CollectInputs)
    /\ stack = <<Frame(entry, IF entry = "eval" THEN "call" ELSE "next", 0)>>
    /\ cursor = 0
    /\ peeked = Empty
    /\ collected = <<>>
    /\ result = Pending

\* Expr::eval, the call:  let result = self.compute_expr(1)?;
eval_call ==
    /\ Running("eval", "call")
    /\ stack' = Append(stack, Frame("compute_expr", "atom", 1))
    /\ UNCHANGED <<file, entry, build, src, cursor, peeked, collected, result>>

\* compute_atom taking the payload of any token but LeftParen as a number
compute_atom_arm_lenient(tok) ==
    CASE tok.t = "LeftParen" -> "paren"
      [] tok = NoToken -> "error"
      [] OTHER -> "number"

\* the arm of compute_atom's match that the lookahead tok takes
compute_atom_arm(tok) ==
    CASE tok.t = "Number" -> "number"
      [] tok.t = "LeftParen" -> "paren"
      [] OTHER -> "error"

\* compute_atom accepting whatever follows the sub-expression
closes_anything(tok) == TRUE

\* the arm of compute_atom's  match self.iter.next()  that tok takes
closes(tok) == tok.t = "RightParen"

\* Expr::compute_atom, up to its return or its call of compute_expr(1)
compute_atom ==
    /\ Running("compute_expr", "atom")
    /\ LET r == peek
       IN  IF ScanPanics(r)
           THEN Exit(ScanPanic) /\ UNCHANGED <<cursor, peeked>>
           ELSE /\ cursor' = r.pos
                /\ CASE compute_atom_arm(r.tok) = "number" ->
                          /\ peeked' = Empty
                          /\ stack' = WithTop(stack, [Top EXCEPT !.lhs = r.tok.v, !.at = "loop"])
                          /\ UNCHANGED result
                     [] compute_atom_arm(r.tok) = "paren" ->
                          /\ peeked' = Empty
                          /\ stack' = stack \o <<Frame("compute_atom", "sub", 0),
                                                 Frame("compute_expr", "atom", 1)>>
                          /\ UNCHANGED result
                     [] OTHER ->
                          /\ peeked' = Full(r.tok)
                          /\ Exit(Err("Parse", "Expected number or parenthesis"))
    /\ UNCHANGED <<file, entry, build, src, collected>>

\* Expr::compute_atom after its sub-expression:  match self.iter.next()
compute_atom_close ==
    /\ Running("compute_atom", "close")
    /\ LET r == peek
       IN  IF ScanPanics(r)
           THEN Exit(ScanPanic) /\ UNCHANGED <<cursor, peeked>>
           ELSE /\ cursor' = r.pos
                /\ peeked' = Empty
                /\ IF closes(r.tok)
                   THEN stack' = Return(Top.lhs) /\ UNCHANGED result
                   ELSE Exit(Err("Parse", "Expected closing parenthesis"))
    /\ UNCHANGED <<file, entry, build, src, collected>>

\* Expr::compute_expr, one turn of the while loop up to the break or to the
\* recursive call for the right-hand side
compute_expr_loop ==
    /\ Running("compute_expr", "loop")
    /\ LET r == peek
       IN  IF ScanPanics(r)
           THEN Exit(ScanPanic) /\ UNCHANGED <<cursor, peeked>>
           ELSE /\ cursor' = r.pos
                /\ UNCHANGED result
                /\ IF \/ r.tok = NoToken
                      \/ ~is_operator(file, r.tok)
                      \/ precedence(r.tok) < Top.min_prec
                   THEN /\ peeked' = Full(r.tok)
                        /\ stack' = Return(Top.lhs)
                   ELSE /\ peeked' = Empty
                        /\ stack' = Append(WithTop(stack, [Top EXCEPT !.op = r.tok, !.at = "rhs"]),
                                           Frame("compute_expr", "atom", next_min_prec(file, r.tok)))
    /\ UNCHANGED <<file, entry, build, src, collected>>

\* Expr::compute_expr after the right-hand side:  lhs = op.compute(lhs, rhs).ok_or(..)?
compute_expr_apply ==
    /\ Running("compute_expr", "apply")
    /\ LET c == compute(build, Top.op, Top.lhs, Top.rhs)
       IN  IF ~c.some THEN Exit(compute_error(file))
           ELSE IF c.panic # "" THEN Exit(Panic(c.panic))
           ELSE /\ stack' = WithTop(stack, [Top EXCEPT !.lhs = c.val, !.at = "loop"])
                /\ UNCHANGED result
    /\ UNCHANGED <<file, entry, build, src, cursor, peeked, collected>>

\* eval without the look at the rest of the stream
eval_result_unchecked(tok, value) == Ok(value)

\* what eval returns once compute_expr(1) has returned Ok(value) and the
\* lookahead is tok
eval_result(tok, value) ==
    IF tok # NoToken THEN Err("Parse", "Unexpected end of expression") ELSE Ok(value)

\* Expr::eval, after the call:  if self.iter.peek().is_some() { Err } else Ok(result)
eval_check ==
    /\ Running("eval", "check")
    /\ LET r == peek
       IN  IF ScanPanics(r)
           THEN Exit(ScanPanic) /\ UNCHANGED <<cursor, peeked>>
           ELSE /\ cursor' = r.pos
                /\ peeked' = Full(r.tok)
                /\ Exit(eval_result(r.tok, Top.lhs))
    /\ UNCHANGED <<file, entry, build, src, collected>>

\* Tokenizer::new(src).collect::<Vec<_>>(): one call of next and the push
collect ==
    /\ Running("collect", "next")
    /\ Len(collected) < MaxTokens
    /\ LET r == Tokenizer_next(src, cursor)
       IN  IF ScanPanics(r)
           THEN Exit(ScanPanic) /\ UNCHANGED <<cursor, collected>>
           ELSE /\ cursor' = r.pos
                /\ IF r.tok = NoToken
                   THEN Exit(Collected) /\ UNCHANGED collected
                   ELSE collected' = Append(collected, r.tok) /\ UNCHANGED <<stack, result>>
    /\ UNCHANGED <<file, entry, build, src, peeked>>

Next ==
    \/ eval_call
    \/ compute_atom
    \/ compute_atom_close
    \/ compute_expr_loop
    \/ compute_expr_apply
    \/ eval_check
    \/ collect

Spec == Init /\ [][Next]_vars

-----------------------------------------------------------------------------
(* A reference evaluator for + - * / and parentheses, by the stratified    *)
(* grammar                                                                 *)
(*     sum     ::= product { ("+" | "-") product }                         *)
(*     product ::= factor { ("*" | "/") factor }                           *)
(*     factor  ::= digits | "(" sum ")"                                    *)
(* over mathematical integers.  st is "ok", or why the input is outside    *)
(* the claim: "bad" (not of the grammar), "div0", "range" (a value leaves  *)
(* the i32 range).                                                         *)

Ref(st, val, pos) == [st |-> st, val |-> val, pos |-> pos]

RECURSIVE RefSkip(_, _)
RefSkip(s, p) == IF p < Len(s) /\ s[p + 1] = " " THEN RefSkip(s, p + 1) ELSE p

RefAt(s, p, cs) == p < Len(s) /\ s[p + 1] \in cs

RefDigitChars == {Digits[i] : i \in 1..10}

RECURSIVE RefDigits(_, _, _)
\* the decimal value of the digit run at p, acc being the value so far
RefDigits(s, p, acc) ==
    IF ~RefAt(s, p, RefDigitChars) THEN Ref("ok", acc, p)
    ELSE LET d == to_digit(s[p + 1])
         IN  IF acc > (I32_MAX - d) \div 10 THEN Ref("range", 0, p)
             ELSE RefDigits(s, p + 1, 10 * acc + d)

\* |x| \div m for m > 0, also for x = MIN
RefAbsDiv(x, m) ==
    IF x = I32_MIN
    THEN (I32_MAX \div m) + (IF I32_MAX % m = m - 1 THEN 1 ELSE 0)
    ELSE (IF x < 0 THEN -x ELSE x) \div m

\* the quotient rounded toward zero; r # 0 and the quotient in range
RefQuot(l, r) ==
    IF r = I32_MIN THEN (IF l = I32_MIN THEN 1 ELSE 0)
    ELSE LET m == RefAbsDiv(l, IF r < 0 THEN -r ELSE r)
         IN  IF (l < 0) = (r < 0) THEN m ELSE -m

RefApply(c, l, r, pos) ==
    CASE c = "+" -> IF AddOverflows(l, r) THEN Ref("range", 0, pos) ELSE Ref("ok", l + r, pos)
      [] c = "-" -> IF SubOverflows(l, r) THEN Ref("range", 0, pos) ELSE Ref("ok", l - r, pos)
      [] c = "*" -> IF MulOverflows(l, r) THEN Ref("range", 0, pos) ELSE Ref("ok", l * r, pos)
      [] c = "/" -> IF r = 0 THEN Ref("div0", 0, pos)
                    ELSE IF l = I32_MIN /\ r = -1 THEN Ref("range", 0, pos)
                    ELSE Ref("ok", RefQuot(l, r), pos)

RECURSIVE RefSum(_, _), RefSumRest(_, _), RefProduct(_, _), RefProductRest(_, _), RefFactor(_, _)

RefFactor(s, p) ==
    LET q == RefSkip(s, p)
    IN  IF RefAt(s, q, RefDigitChars) THEN RefDigits(s, q, 0)
        ELSE IF RefAt(s, q, {"("})
        THEN LET e == RefSum(s, q + 1)
                 c == RefSkip(s, e.pos)
             IN  IF e.st # "ok" THEN e
                 ELSE IF RefAt(s, c, {")"}) THEN Ref("ok", e.val, c + 1)
                 ELSE Ref("bad", 0, c)
        ELSE Ref("bad", 0, q)

\* acc is the product so far, up to acc.pos
RefProductRest(s, acc) ==
    LET q == RefSkip(s, acc.pos)
    IN  IF ~RefAt(s, q, {"*", "/"}) THEN acc
        ELSE LET f == RefFactor(s, q + 1)
             IN  IF f.st # "ok" THEN f
                 ELSE LET v == RefApply(s[q + 1], acc.val, f.val, f.pos)
                      IN  IF v.st # "ok" THEN v ELSE RefProductRest(s, v)

RefProduct(s, p) ==
    LET f == RefFactor(s, p)
    IN  IF f.st # "ok" THEN f ELSE RefProductRest(s, f)

\* acc is the sum so far, up to acc.pos
RefSumRest(s, acc) ==
    LET q == RefSkip(s, acc.pos)
    IN  IF ~RefAt(s, q, {"+", "-"}) THEN acc
        ELSE LET t == RefProduct(s, q + 1)
             IN  IF t.st # "ok" THEN t
                 ELSE LET v == RefApply(s[q + 1], acc.val, t.val, t.pos)
                      IN  IF v.st # "ok" THEN v ELSE RefSumRest(s, v)

RefSum(s, p) ==
    LET t == RefProduct(s, p)
    IN  IF t.st # "ok" THEN t ELSE RefSumRest(s, t)

\* the whole input as one sum
RefEval(s) ==
    LET e == RefSum(s, 0)
    IN  IF e.st # "ok" THEN e
        ELSE IF RefSkip(s, e.pos) = Len(s) THEN e
        ELSE Ref("bad", 0, e.pos)

RECURSIVE RefPower(_, _)
\* a ^ n for a >= 0 and n >= 0, or -1 when it exceeds the i32 range
RefPower(a, n) ==
    IF n = 0 THEN 1
    ELSE IF a <= 1 THEN a
    ELSE IF n > 31 THEN -1
    ELSE LET p == RefPower(a, n - 1)
         IN  IF p < 0 \/ p > I32_MAX \div a THEN -1 ELSE p * a

-----------------------------------------------------------------------------
(* The properties.                                                         *)

\* Expr::eval has returned (or panicked)
EvalDone == entry = "eval" /\ result # Pending

OperatorChars == {"+", "-", "*", "/", "^", "(", ")"}

\* a char the specification's scanner rejects
IsForeign(c) == ~is_whitespace(c) /\ ~is_digit(c) /\ c \notin OperatorChars

\* the step about to be taken pulls a token from the Tokenizer
CallsNext ==
    /\ ~peeked.full
    /\ \/ Running("collect", "next")
       \/ Running("compute_expr", "atom")
       \/ Running("compute_expr", "loop")
       \/ Running("compute_atom", "close")
       \/ Running("eval", "check")

\* the lookahead the step about to be taken sees, when its scan does not panic
SeesKind(ts) == ~ScanPanics(peek) /\ peek.tok.t \in ts

TokenKinds ==
    {"Number", "Plus", "Minus", "Divide", "Multiply", "Power", "LeftParen", "RightParen", "None"}

ExpectedOperand == Err("Parse", "Expected number or parenthesis")
ExpectedClosing == Err("Parse", "Expected closing parenthesis")
TrailingInput == Err("Parse", "Unexpected end of expression")

\* C1: for every input that the reference grammar of + - * / and parentheses
\* accepts with every value in the i32 range and no division by zero, eval
\* returns Ok of the reference value: * and / bind tighter than + and -, equal
\* levels group left to right, a parenthesised sub-expression is one operand.
C1_MatchesReference ==
    (EvalDone /\ RefEval(src).st = "ok") => result = Ok(RefEval(src).val)

\* "1 + 2 * 3 - 4" has returned Ok(3)
C1_Witness ==
    /\ EvalDone
    /\ src = <<"1", " ", "+", " ", "2", " ", "*", " ", "3", " ", "-", " ", "4">>
    /\ result = Ok(3)

IsPowerChain(s) ==
    /\ Len(s) = 5
    /\ s[2] = "^" /\ s[4] = "^"
    /\ \A i \in {1, 3, 5} : is_digit(s[i])

\* a ^ (b ^ c) of the chain  a^b^c, or -1 when out of range
PowerChainValue(s) ==
    LET e == RefPower(to_digit(s[3]), to_digit(s[5]))
    IN  IF e < 0 THEN -1 ELSE RefPower(to_digit(s[1]), e)

\* C2: in both files, a chain a ^ b ^ c of digits whose value a ^ (b ^ c) is in
\* range evaluates to Ok(a ^ (b ^ c)).
C2_PowerRightAssociative ==
    (EvalDone /\ IsPowerChain(src) /\ PowerChainValue(src) >= 0)
        => result = Ok(PowerChainValue(src))

\* compute_expr is about to apply / to a right-hand side of zero
DividesByZero ==
    /\ entry = "eval"
    /\ Running("compute_expr", "apply")
    /\ Top.op.t = "Divide"
    /\ Top.rhs = 0

DivisionByZeroExamples == {
    <<"1", " ", "+", " ", "2", " ", "/", " ", "0">>,
    <<"4", " ", "/", " ", "(", "2", " ", "-", " ", "2", ")">>,
    <<"1", " ", "+", " ", "2", " ", "*", " ", "3", " ", "-", " ", "4", " ", "/", " ", "0">>
}

\* C3 as stated: applying / to a zero right-hand side makes eval return the
\* error kind DivisionByZero.
C3_ReportsDivisionByZero ==
    [][DividesByZero => result' = Err("DivisionByZero", "")]_vars

\* the error kind the code gives a division by zero in file f
InvalidOperation(f) ==
    IF f = "misc" THEN Err("InvalidNumber", "") ELSE Err("Parse", "Invalid operation")

\* C3 amended: applying / to a zero right-hand side makes eval return an error
\* at once, never a value and never a panic: InvalidNumber in src/misc, the
\* Parse error "Invalid operation" in src/eval_expr; so do the documented
\* inputs.
C3_ReportsInvalidNumber ==
    /\ [][DividesByZero => result' = InvalidOperation(file)]_vars
    /\ []((EvalDone /\ src \in DivisionByZeroExamples) => result = InvalidOperation(file))

\* "4 / (2 - 2)" has returned InvalidNumber from src/misc
C3_Witness ==
    /\ EvalDone
    /\ file = "misc"
    /\ src = <<"4", " ", "/", " ", "(", "2", " ", "-", " ", "2", ")">>
    /\ result = Err("InvalidNumber", "")

\* C4: once the scanner has consumed a char that is neither whitespace, a
\* decimal digit nor one of + - * / ^ ( ), eval does not return Ok: it returns
\* a Parse error.
C4_ForeignCharIsParseError ==
    (EvalDone /\ result.kind # "Panic" /\ \E i \in 1..cursor : IsForeign(src[i]))
        => (result.kind = "Err" /\ result.err = "Parse")

\* C5: eval returns Ok only when the token stream is exhausted (the lookahead
\* is the Tokenizer's None, given at the end of the text or at a char the
\* scanner does not recognise), and when a token remains after the top-level
\* expression it returns the Parse error instead of the value.
C5_OkOnlyWhenExhausted ==
    /\ []((EvalDone /\ result.kind = "Ok") =>
            /\ peeked = Full(NoToken)
            /\ \/ cursor = Len(src)
               \/ cursor > 0 /\ IsForeign(src[cursor]) /\ ~is_numeric(src[cursor]))
    /\ [][(Running("eval", "check") /\ SeesKind(TokenKinds \ {"None"}))
            => result' = TrailingInput]_vars

\* "1 2" has returned the Parse error with the second number still in the
\* lookahead
C5_Witness ==
    /\ EvalDone
    /\ src = <<"1", " ", "2">>
    /\ peeked = Full(Number(2))
    /\ result = TrailingInput

\* the number of chars c among the first n of s
RECURSIVE Count(_, _, _)
Count(s, n, c) ==
    IF n = 0 THEN 0 ELSE Count(s, n - 1, c) + (IF s[n] = c THEN 1 ELSE 0)

UnclosedExamples == {
    <<"(", "2", " ", "+", " ", "3">>,
    <<"(", "2", " ", "+", " ", "3", " ", "4">>,
    <<"(", "(", "1", ")">>
}

\* C6: when the token read after a parenthesised sub-expression is not
\* RightParen (any other token, or the end of input), eval returns the Parse
\* error "Expected closing parenthesis"; so eval returns Ok only with as many
\* ")" as "(" consumed, and the documented inputs give that error.
C6_ClosingParenRequired ==
    /\ [][(entry = "eval" /\ Running("compute_atom", "close")
             /\ SeesKind(TokenKinds \ {"RightParen"}))
            => result' = ExpectedClosing]_vars
    /\ []((EvalDone /\ result.kind = "Ok")
            => Count(src, cursor, "(") = Count(src, cursor, ")"))
    /\ []((EvalDone /\ src \in UnclosedExamples) => result = ExpectedClosing)

\* "(2 + 3 4" has returned the error
C6_Witness ==
    /\ EvalDone
    /\ src = <<"(", "2", " ", "+", " ", "3", " ", "4">>
    /\ result = ExpectedClosing

MissingOperandExamples == {
    <<>>,
    <<"1", " ", "+", " ", "2", " ", "*">>,
    <<"1", " ", "+", " ", "2", " ", "*", " ", "3", " ", "-">>,
    <<"+", " ", "1">>,
    <<"(", ")">>
}

\* C7: where an operand is required (compute_expr starts with compute_atom: at
\* the start of the input, after a binary operator, after a LeftParen) and the
\* lookahead is neither Number nor LeftParen (the end of input included), eval
\* returns the Parse error "Expected number or parenthesis"; so do the
\* documented inputs.
C7_OperandRequired ==
    /\ [][(entry = "eval" /\ Running("compute_expr", "atom")
             /\ SeesKind(TokenKinds \ {"Number", "LeftParen"}))
            => result' = ExpectedOperand]_vars
    /\ []((EvalDone /\ src \in MissingOperandExamples) => result = ExpectedOperand)

\* "1 + 2 *" has returned the error
C7_Witness ==
    /\ EvalDone
    /\ src = <<"1", " ", "+", " ", "2", " ", "*">>
    /\ result = ExpectedOperand

\* C8: applying ^ to a negative right-hand side makes eval fail with an error
\* at once.
C8_NegativeExponentFails ==
    [][(entry = "eval" /\ Running("compute_expr", "apply")
          /\ Top.op.t = "Power" /\ Top.rhs < 0)
         => result'.kind = "Err"]_vars

\* C9: eval never aborts: its outcome is Ok or Err.
C9_NeverPanics == entry = "eval" => result.kind # "Panic"

\* C10: a call of Tokenizer::next that returns a token has consumed at least
\* one char.
C10_TokenConsumesInput ==
    [][(CallsNext /\ SeesKind(TokenKinds \ {"None"})) => cursor' > cursor]_vars

====
